---- MODULE Spec2Model ----
(***************************************************************************)
(* Pluggable-capability connection and dispatch: the gRPC connector        *)
(* (pkg/components/pluggable/grpc.go) and the command-streaming HTTP       *)
(* middleware (pkg/components/middleware/http/pluggable.go).               *)
(*                                                                         *)
(* One Connector serves the request handlers ("sessions") returned by      *)
(* newGRPCMiddleware.  Each session opens one client stream with           *)
(* Client.Handle(ctx) and runs the for/select loop of lines 139-165.       *)
(*                                                                         *)
(* Library calls are modelled by their documented behaviour:               *)
(*  - a gRPC client stream is finished (its context cancelled, its         *)
(*    resources released) when the ClientConn is closed, when the context  *)
(*    it was opened under is cancelled, when RecvMsg returns a non-nil     *)
(*    error (io.EOF included), or when SendMsg returns a non-nil error     *)
(*    other than io.EOF; CloseSend only closes the send direction          *)
(*    (grpc ClientConn.NewStream, referred to by the generated clients);   *)
(*  - SendMsg returns io.EOF when the stream was ended by the other side;  *)
(*  - fasthttp RequestHeader.VisitAllInOrder visits the headers as they    *)
(*    were received from the wire, RequestHeader.Set and VisitAll work on  *)
(*    the current header table; Request.URI() parses the request URI once  *)
(*    and caches it; RequestCtx.Error resets the response and sets status  *)
(*    and body.  Header names are compared as HTTP compares them.          *)
(***************************************************************************)
EXTENDS Integers, Sequences, FiniteSets, TLC

(* ---------------------------------------------------------------- bounds *)
\* commands a plugin sends on one stream
MaxCmds == 2
\* concurrent request handlers in the concurrent specification
NumSessions == 2
\* commands sent over all streams together in the concurrent specification
MaxCmdsConc == 1
\* characters in a descriptor field or a component name of an address
MaxLen == 2
\* Register calls
MaxRegisterCalls == 2
\* useOption calls after the ones of init()
MaxUseOptions == 2
\* descriptors in one WithPluggables call
MaxPluggables == 3

(* ------------------------------------------------------------ vocabulary *)
None == "<none>"

\* Byte strings and texts are sequences of chunks: <<>> is the empty string,
\* concatenation is \o.

\* metadata.Name of the middleware component (pluggable.go:117, 146)
Name == "mw1"

StatusInternalServerError == 500

\* request headers as received from the wire, in order
ReceivedHeaders == << <<"X", "x0">>, <<"Y", "y0">> >>
\* the header lines of a request that carries the header X twice
RepeatedHeaders == << <<"X", "x0">>, <<"Y", "y0">>, <<"X", "x2">> >>
HeaderKeys == {"X", "Y", "Z"}

\* the header table built from a sequence of <<key, value>> pairs
RECURSIVE TableOf(_)
TableOf(kvs) ==
    IF kvs = <<>> THEN [k \in HeaderKeys |-> None]
    ELSE LET t == TableOf(SubSeq(kvs, 1, Len(kvs) - 1))
             kv == kvs[Len(kvs)]
         IN [t EXCEPT ![kv[1]] = kv[2]]

NoHeaders == [k \in HeaderKeys |-> None]

\* a Go map[string]string built by visiting <<key, value>> pairs in order:
\* later entries overwrite, the visiting order is not kept
MapOf(kvs) == TableOf(kvs)

\* header maps a plugin puts in a Set*Headers command
SetHeaderMaps == {[k \in HeaderKeys |-> IF k = "X" THEN "x1" ELSE IF k = "Z" THEN "z1" ELSE None]}

Host == "host"
\* URI.String() of a request URI parsed against the Host header
URIString(requestURI) == <<"http://", Host>> \o requestURI

\* proto.Command: exactly one variant per message
ReadCommands ==
    {[op |-> o] : o \in {"GetReqBody", "GetRespBody", "GetRespHeaders", "GetReqHeaders"}}
SetReqHeadersCommands ==
    {[op |-> "SetReqHeaders", headers |-> h, method |-> m, uri |-> u] :
        h \in SetHeaderMaps, m \in {"", "POST"}, u \in {"", "/b"}}
WriteCommands ==
    SetReqHeadersCommands
    \cup {[op |-> "SetRespHeaders", headers |-> h] : h \in SetHeaderMaps}
    \cup {[op |-> "SetRespStatus", code |-> 201]}
    \cup {[op |-> "SetReqBody", data |-> <<"d">>]}
    \cup {[op |-> "SetRespBody", data |-> <<"d">>]}
ExecNextCommand == [op |-> "ExecNext"]
Commands == ReadCommands \cup WriteCommands \cup {ExecNextCommand}

\* what the next handler h of the host's chain may leave in the response
HandlerOutcomes == {[status |-> 200, body |-> <<"app">>], [status |-> 404, body |-> <<"nf">>]}

(* ------------------------------------------------- request and response *)
\* the header table of a request received with the header lines kvs: a
\* name that was received more than once is looked up at its first line
RECURSIVE PeekTable(_)
PeekTable(kvs) ==
    IF kvs = <<>> THEN [k \in HeaderKeys |-> None]
    ELSE [PeekTable(Tail(kvs)) EXCEPT ![Head(kvs)[1]] = Head(kvs)[2]]

\* a request received with the header lines received
RequestWith(received, uriParsed) ==
    [method |-> "GET", requestURI |-> <<"/a">>, parsedURI |-> uriParsed,
     uri |-> IF uriParsed THEN <<"/a">> ELSE <<>>,
     received |-> received, hdr |-> PeekTable(received), body |-> <<"req0">>]

\* the request as it enters the middleware; uriParsed: an earlier layer of
\* the host may or may not have called URI() already
NewRequest(uriParsed) == RequestWith(ReceivedHeaders, uriParsed)

NewResponse == [status |-> 200, hdr |-> NoHeaders, body |-> <<>>]

\* Request.URI(): parse once, then serve the cached URI
ParseURI(rq) ==
    IF rq.parsedURI THEN rq
    ELSE [rq EXCEPT !.parsedURI = TRUE, !.uri = rq.requestURI]

\* RequestHeader.Set for every entry of a map; Go ranges over the map in any
\* order, distinct keys commute
SetAll(table, headers) ==
    [k \in HeaderKeys |-> IF headers[k] # None THEN headers[k] ELSE table[k]]

\* RequestCtx.Error(msg, statusCode): Response.Reset, status, body
CtxError(msg, code) == [status |-> code, hdr |-> NoHeaders, body |-> msg]

TimeoutMsg == <<"timed out waiting for middleware '", Name, "'">>
\* err.Error() of the errors of a stream
ErrEOF == "EOF"
ErrCanceled == "rpc error: code = Canceled"
ErrUnavailable == "rpc error: code = Unavailable"
\* an error the plugin itself answers a call with
ErrPlugin == "rpc error: code = Unknown"
ErrMsg(e) == <<e>>

(* ------------------------------------------------------- commandHandler *)
\* The closure returned by commandHandler applied to one command that is not
\* ExecNext.  sendOK: whether callback (client.Send) succeeds.  The result is
\* the request and response after the call, the CommandResponses sent and
\* the error returned.
GetReqBody(rq, rs, sendOK) ==
    [req |-> rq, resp |-> rs,
     sent |-> IF sendOK THEN <<[op |-> "GetReqBody", data |-> rq.body]>> ELSE <<>>,
     err |-> IF sendOK THEN None ELSE ErrEOF]

GetRespBody(rq, rs, sendOK) ==
    [req |-> rq, resp |-> rs,
     sent |-> IF sendOK THEN <<[op |-> "GetRespBody", data |-> rs.body]>> ELSE <<>>,
     err |-> IF sendOK THEN None ELSE ErrEOF]

GetRespHeaders(rq, rs, sendOK) ==
    [req |-> rq, resp |-> rs,
     sent |-> IF sendOK THEN <<[op |-> "GetRespHeaders", headers |-> rs.hdr]>> ELSE <<>>,
     err |-> IF sendOK THEN None ELSE ErrEOF]

\* the headers visited by VisitAllInOrder
VisitAllInOrder(rq) == rq.received

GetReqHeaders(rq, rs, sendOK) ==
    LET parsed == ParseURI(rq)
    IN [req |-> parsed, resp |-> rs,
        sent |-> IF sendOK
                 THEN <<[op |-> "GetReqHeaders", method |-> parsed.method,
                         uri |-> URIString(parsed.uri),
                         headers |-> MapOf(VisitAllInOrder(rq))]>>
                 ELSE <<>>,
        err |-> IF sendOK THEN None ELSE ErrEOF]

\* a SetReqHeaders that replaces the header table by the command's headers
SetReqHeadersReplacing(cmd, rq, rs) ==
    LET r1 == [rq EXCEPT !.hdr = cmd.headers]
        r2 == IF cmd.method # "" THEN [r1 EXCEPT !.method = cmd.method] ELSE r1
        r3 == IF cmd.uri # "" THEN [r2 EXCEPT !.requestURI = <<cmd.uri>>] ELSE r2
    IN [req |-> r3, resp |-> rs, sent |-> <<>>, err |-> None]

SetReqHeaders(cmd, rq, rs) ==
    LET r1 == [rq EXCEPT !.hdr = SetAll(rq.hdr, cmd.headers)]
        r2 == IF cmd.method # "" THEN [r1 EXCEPT !.method = cmd.method] ELSE r1
        r3 == IF cmd.uri # "" THEN [r2 EXCEPT !.requestURI = <<cmd.uri>>] ELSE r2
    IN [req |-> r3, resp |-> rs, sent |-> <<>>, err |-> None]

SetRespHeaders(cmd, rq, rs) ==
    [req |-> rq, resp |-> [rs EXCEPT !.hdr = SetAll(rs.hdr, cmd.headers)],
     sent |-> <<>>, err |-> None]

SetRespStatus(cmd, rq, rs) ==
    [req |-> rq, resp |-> [rs EXCEPT !.status = cmd.code], sent |-> <<>>, err |-> None]

\* a SetReqBody that acknowledges the write with a CommandResponse
SetReqBodyAnswering(cmd, rq, rs) ==
    [req |-> [rq EXCEPT !.body = cmd.data], resp |-> rs,
     sent |-> <<[op |-> "SetReqBody"]>>, err |-> None]

SetReqBody(cmd, rq, rs) ==
    [req |-> [rq EXCEPT !.body = cmd.data], resp |-> rs, sent |-> <<>>, err |-> None]

\* a body write that appends
SetRespBodyAppending(cmd, rq, rs) ==
    [req |-> rq, resp |-> [rs EXCEPT !.body = @ \o cmd.data], sent |-> <<>>, err |-> None]

SetRespBody(cmd, rq, rs) ==
    [req |-> rq, resp |-> [rs EXCEPT !.body = cmd.data], sent |-> <<>>, err |-> None]

commandHandler(cmd, rq, rs, sendOK) ==
    CASE cmd.op = "GetReqBody" -> GetReqBody(rq, rs, sendOK)
      [] cmd.op = "GetRespBody" -> GetRespBody(rq, rs, sendOK)
      [] cmd.op = "GetRespHeaders" -> GetRespHeaders(rq, rs, sendOK)
      [] cmd.op = "GetReqHeaders" -> GetReqHeaders(rq, rs, sendOK)
      [] cmd.op = "SetReqHeaders" -> SetReqHeaders(cmd, rq, rs)
      [] cmd.op = "SetRespHeaders" -> SetRespHeaders(cmd, rq, rs)
      [] cmd.op = "SetRespStatus" -> SetRespStatus(cmd, rq, rs)
      [] cmd.op = "SetReqBody" -> SetReqBody(cmd, rq, rs)
      [] cmd.op = "SetRespBody" -> SetRespBody(cmd, rq, rs)

(* ---------------------------------------------------- address derivation *)
\* Texts that take part in an address are spelled character by character.
\* defaultSocketFolder, when the environment variable is not set
defaultSocketFolder == <<"/", "v", "a", "r", "/", "r", "u", "n">>
socketsFolder == defaultSocketFolder

\* components.Pluggable: the descriptor of a pluggable component
Descriptor(type, name, version) == [Type |-> type, Name |-> name, Version |-> version]

State == <<"s", "t", "a", "t", "e">>
PubSub == <<"p", "u", "b", "s", "u", "b">>
HTTPMiddleware == <<"m", "i", "d", "d", "l", "e", "w", "a", "r", "e", ".", "h", "t", "t", "p">>

\* a derivation that leaves the plugin's name out
socketPathForWithoutName(pluggable_, componentName_) ==
    socketsFolder \o <<"/", "d", "a", "p", "r", "-">> \o pluggable_.Type \o <<".">>
        \o <<"-">> \o pluggable_.Version \o <<"-">> \o componentName_
        \o <<".", "s", "o", "c", "k">>

\* fmt.Sprintf("%s/dapr-%s.%s-%s-%s.sock", socketsFolder, Type, Name, Version, componentName)
socketPathFor(pluggable_, componentName_) ==
    socketsFolder \o <<"/", "d", "a", "p", "r", "-">> \o pluggable_.Type \o <<".">>
        \o pluggable_.Name \o <<"-">> \o pluggable_.Version \o <<"-">> \o componentName_
        \o <<".", "s", "o", "c", "k">>

\* fmt.Sprintf("unix://%s", g.socketPathFor(componentName))
UdsSocket(pluggable_, componentName_) ==
    <<"u", "n", "i", "x", ":", "/", "/">> \o socketPathFor(pluggable_, componentName_)

\* errors.Wrapf(err, "unable to open GRPC connection using socket '%s'", udsSocket)
DialError(udsSocket_, err) ==
    <<"unable to open GRPC connection using socket '">> \o udsSocket_ \o <<"'", ": ", err>>
ErrDial == "grpc: dial failed"

\* the middleware component of the request handlers: its descriptor and its
\* metadata.Name, spelled out
MiddlewarePluggable == Descriptor(HTTPMiddleware, <<"p">>, <<"v", "1">>)
NameChars == <<"m", "w", "1">>

VARIABLES
    pluggable,    \* GRPCConnector.pluggable: the descriptor given to NewGRPCConnector
    componentName,\* the componentName Dial is called with
    udsSocket,    \* the target Dial gave to grpc.Dial; <<>> before Dial
    dialRet,      \* Dial's return: [returned, err], err = <<>> for nil
    pings,        \* number of Ping calls issued
    pingRes,      \* the result of the Ping: "none", "ok", "err"
    inits,        \* number of Init calls made through the Connector
    initRes,      \* the result of the Init: "none", "ok", "err"
    factoryRet,   \* the factory's return: [returned, err, middleware]
    fpc,          \* position of the factory newGRPCMiddleware
    pluginReady,  \* the plugin process serves its socket
    ctxCancelled, \* GRPCConnector.Context is cancelled
    conn,         \* GRPCConnector.conn: "nil", "open", "closed"
    pc,           \* per session: position of the request handler
    exit,         \* per session: the return statement taken
    reqDone,      \* per session: ctx.Done() of the request is closed
    stream,       \* per session: the client stream: "none", "open", "done"
    streams,      \* number of streams Client.Handle has opened on the Connector
    streamOf,     \* per session: the stream the handler holds, named by the
                  \* request whose Handle call opened it; 0 if none
    sendClosed,   \* per session: CloseSend was called
    plugEnd,      \* per session: how the plugin ended the stream: "no", "eof", "err"
    inbox,        \* per session: commands sent by the plugin, not yet received
    sentN,        \* per session: number of commands the plugin has sent
    dispatched,   \* per session: the messages handed to handleCommand, in order
    out,          \* per session: CommandResponses sent back on the stream
    nextRunning,  \* per session: h(ctx) is executing
    nextCount,    \* per session: number of invocations of h
    req,          \* per session: ctx.Request
    resp,         \* per session: ctx.Response
    registries,   \* pluggable.registries: component type -> registration, or None
    warned,       \* number of log.Warnf calls of the pluggable package
    registerCalled, \* per register function: number of calls
    registered,   \* the component factories handed to register functions, in order
    mapCalled,    \* number of calls of component factories
    regCalls,     \* number of Register calls
    regArg,       \* the descriptors of the last Register call
    regRet,       \* the value the last Register call returned
    pluggableOptions, \* runtime.pluggableOptions: component type -> loader, or NoLoader
    useOptions,   \* the useOption calls, in order
    lpc,          \* position of the host's use of WithPluggables
    pluggables,   \* the descriptors WithPluggables is called with
    opts,         \* the Options WithPluggables built
    mustLoaded,   \* the descriptors MustLoad was called with, in order
    failedAt,     \* index of the descriptor whose load failed, 0 if none
    runtimeOpts   \* the runtimeOpts the Options are applied to

registryVars == <<registries, warned, registerCalled, registered, mapCalled,
                  regCalls, regArg, regRet>>
loaderVars == <<pluggableOptions, useOptions, lpc, pluggables, opts, mustLoaded,
                failedAt, runtimeOpts>>
hostVars == <<registryVars, loaderVars>>
dialVars == <<pluggable, componentName, udsSocket, dialRet, pings, pingRes>>
factoryVars == <<inits, initRes, factoryRet>>
connVars == <<fpc, pluginReady, ctxCancelled, conn, dialVars, factoryVars>>
streamIds == <<streams, streamOf>>
sessVars == <<pc, exit, reqDone, stream, sendClosed, plugEnd, inbox, sentN,
              dispatched, out, nextRunning, nextCount, req, resp, streamIds>>
vars == <<pluggable, componentName, udsSocket, dialRet, pings, pingRes,
          inits, initRes, factoryRet, fpc, pluginReady, ctxCancelled, conn, pc, exit, reqDone, stream,
          streams, streamOf, sendClosed, plugEnd, inbox, sentN, dispatched, out, nextRunning,
          nextCount, req, resp, registries, warned, registerCalled, registered,
          mapCalled, regCalls, regArg, regRet, pluggableOptions, useOptions,
          lpc, pluggables, opts, mustLoaded, failedAt, runtimeOpts>>


(* ------------------------------------------------- the pluggable registry *)
\* register functions: the RegisterComponent of a component registry (such as
\* the HTTP middleware DefaultRegistry) and the one of a test
RegisterFuncs == {"DefaultRegistry.RegisterComponent", "registerFunc"}
\* component types AddRegistryFor is called with
RegistryTypes == {HTTPMiddleware, State}
\* components.Pluggable{}: the empty descriptor
EmptyPluggable == Descriptor(<<>>, <<>>, <<>>)

\* registries = make(map[...]...) : no entry
NoRegistries == [ty \in RegistryTypes |-> None]
\* the registries after the init() of the HTTP middleware package
InitialRegistries ==
    [NoRegistries EXCEPT ![HTTPMiddleware] = "DefaultRegistry.RegisterComponent"]

\* the entry of a descriptor's type, None when the map has none
RegistryFor(regs, pc_) == IF pc_.Type \in DOMAIN regs THEN regs[pc_.Type] ELSE None

\* Register(pluggables...): per descriptor, the register function of its type
\* is called with a factory bound to the descriptor, or a warning is logged
RECURSIVE RegisterAll(_, _)
RegisterAll(regs, ps) ==
    IF ps = <<>> THEN [count |-> 0, warns |-> 0, calls |-> <<>>]
    ELSE LET pc_ == Head(ps)
             rest == RegisterAll(regs, Tail(ps))
             f == RegistryFor(regs, pc_)
         IN IF f = None
            THEN [rest EXCEPT !.warns = @ + 1]
            ELSE [rest EXCEPT !.count = @ + 1,
                              !.calls = <<[regFunc |-> f, pc |-> pc_]>> \o @]

\* the number of calls of register function f among calls
CallsOf(calls, f) == Len(SelectSeq(calls, LAMBDA c : c.regFunc = f))

InitRegistry(regs) ==
    /\ registries = regs
    /\ warned = 0
    /\ registerCalled = [f \in RegisterFuncs |-> 0]
    /\ registered = <<>>
    /\ mapCalled = 0
    /\ regCalls = 0
    /\ regArg = <<>>
    /\ regRet = 0

(* ------------------------------------------------------------ the loader *)
\* a component type no init() registers a loader for
Custom == <<"x">>
OptionTypes == {State, PubSub, Custom}

\* runtimeOpts: the component lists the loaders add to
NewRuntimeOpts == [states |-> <<>>, pubsubs |-> <<>>]

\* An Option is the list it appends to and what it appends.
WithStates(states) == [field |-> "states", items |-> states]
WithPubSubs(pubsubs) == [field |-> "pubsubs", items |-> pubsubs]
\* an Option that replaces the list
ApplyOptionReplacing(opt, ro) == [ro EXCEPT ![opt.field] = opt.items]
\* opt(runtimeOpts)
ApplyOption(opt, ro) == [ro EXCEPT ![opt.field] = @ \o opt.items]

\* withOpts(opts...)(runtimeOpts): every option applied, in order
RECURSIVE withOpts(_, _)
withOpts(os, ro) ==
    IF os = <<>> THEN ro ELSE withOpts(Tail(os), ApplyOption(Head(os), ro))

\* the add functions useOption is called with
Adders == {"WithStates", "WithPubSubs"}
Add(add, items) ==
    CASE add = "WithStates" -> WithStates(items)
      [] add = "WithPubSubs" -> WithPubSubs(items)

\* a loader is the closure useOption made: its add function and the ordinal
\* of the useOption call that made it
NoLoader == [add |-> None, ord |-> 0]
\* a useOption that keeps an entry the map already has
useOptionKeeping(options, componentType, add, ord) ==
    IF options[componentType] # NoLoader THEN options
    ELSE [options EXCEPT ![componentType] = [add |-> add, ord |-> ord]]
\* pluggableOptions[componentType] = func(pc) Option { return add(MustLoad[T](pc)) }
useOption(options, componentType, add, ord) ==
    [options EXCEPT ![componentType] = [add |-> add, ord |-> ord]]

\* the useOption calls of init()
InitUseOptions == <<[type |-> State, add |-> "WithStates"],
                    [type |-> PubSub, add |-> "WithPubSubs"]>>
RECURSIVE UseOptions(_)
UseOptions(calls) ==
    IF calls = <<>> THEN [ty \in OptionTypes |-> NoLoader]
    ELSE LET c == calls[Len(calls)]
         IN useOption(UseOptions(SubSeq(calls, 1, Len(calls) - 1)), c.type, c.add, Len(calls))

\* load, ok := pluggableOptions[components.Type(pluggable.Type)]
LoaderFor(options, pc_) ==
    IF pc_.Type \in DOMAIN options THEN options[pc_.Type] ELSE NoLoader

\* pluggable.MustLoad[T](pc): the component loaded for the descriptor
MustLoad(pc_) == [pc |-> pc_]
\* a loader that loads the component twice
loadTwice(loader, pc_) == Add(loader.add, <<MustLoad(pc_), MustLoad(pc_)>>)
\* load(pluggable): add(pluggable.MustLoad[T](pc))
load(loader, pc_) == Add(loader.add, <<MustLoad(pc_)>>)

\* the opts slice after the loop of WithPluggables over ps
RECURSIVE LoadAll(_, _)
LoadAll(options, ps) ==
    IF ps = <<>> THEN <<>>
    ELSE LET l == LoaderFor(options, Head(ps))
         IN (IF l = NoLoader THEN <<>> ELSE <<load(l, Head(ps))>>)
              \o LoadAll(options, Tail(ps))
\* the MustLoad calls of that loop: the descriptor and the loader calling
RECURSIVE MustLoads(_, _)
MustLoads(options, ps) ==
    IF ps = <<>> THEN <<>>
    ELSE LET l == LoaderFor(options, Head(ps))
         IN (IF l = NoLoader THEN <<>> ELSE <<[pc |-> Head(ps), by |-> l]>>)
              \o MustLoads(options, Tail(ps))

\* components the host was given directly, before the pluggable ones
BuiltIn == MustLoad(Descriptor(State, <<"r">>, <<"v", "1">>))
InitialRuntimeOpts ==
    {NewRuntimeOpts, withOpts(<<WithStates(<<BuiltIn>>)>>, NewRuntimeOpts)}

InitLoader(ro) ==
    /\ useOptions = InitUseOptions
    /\ pluggableOptions = UseOptions(InitUseOptions)
    /\ lpc = "idle"
    /\ pluggables = <<>>
    /\ opts = <<>>
    /\ mustLoaded = <<>>
    /\ failedAt = 0
    /\ runtimeOpts = ro

\* the host of the request handlers: registry and loaders as init() leaves
\* them
InitHost == InitRegistry(InitialRegistries) /\ InitLoader(NewRuntimeOpts)

(* ------------------------------------------------------------ connector *)
\* NewGRPCConnector: a fresh cancellable context, no connection yet
NoReturn == [returned |-> FALSE, err |-> <<>>]
Returns(err) == [returned |-> TRUE, err |-> err]
\* the factory returned by newGRPCMiddleware has not returned, returns
\* (nil, err), returns (the middleware, nil)
FactoryRunning == [returned |-> FALSE, err |-> <<>>, middleware |-> FALSE]
FactoryFails(err) == [returned |-> TRUE, err |-> err, middleware |-> FALSE]
FactoryReturnsMiddleware == [returned |-> TRUE, err |-> <<>>, middleware |-> TRUE]

InitConnector ==
    /\ fpc = "new"
    /\ pluginReady = FALSE
    /\ ctxCancelled = FALSE
    /\ conn = "nil"
    /\ udsSocket = <<>>
    /\ dialRet = NoReturn
    /\ pings = 0
    /\ pingRes = "none"
    /\ inits = 0
    /\ initRes = "none"
    /\ factoryRet = FactoryRunning

\* NewGRPCConnector(pc, factory) of the middleware and the metadata.Name
\* its Dial is called with
InitMiddleware ==
    /\ InitConnector
    /\ pluggable = MiddlewarePluggable
    /\ componentName = NameChars

InitSessions(S) ==
    /\ pc = [s \in S |-> "idle"]
    /\ exit = [s \in S |-> None]
    /\ reqDone = [s \in S |-> FALSE]
    /\ stream = [s \in S |-> "none"]
    /\ streams = 0
    /\ streamOf = [s \in S |-> 0]
    /\ sendClosed = [s \in S |-> FALSE]
    /\ plugEnd = [s \in S |-> "no"]
    /\ inbox = [s \in S |-> <<>>]
    /\ sentN = [s \in S |-> 0]
    /\ dispatched = [s \in S |-> <<>>]
    /\ out = [s \in S |-> <<>>]
    /\ nextRunning = [s \in S |-> FALSE]
    /\ nextCount = [s \in S |-> 0]
    /\ resp = [s \in S |-> NewResponse]

Sessions == DOMAIN pc

\* the plugin process starts serving its socket
PluginStarts ==
    /\ ~pluginReady
    /\ pluginReady' = TRUE
    /\ UNCHANGED <<fpc, ctxCancelled, conn, dialVars, factoryVars>>
    /\ UNCHANGED <<sessVars, hostVars>>

\* Dial up to the Ping: grpc.Dial fails (wrapped error, conn stays nil) or
\* sets conn and Client and issues the Ping
\* a Dial that returns right after opening the connection
DialWithoutPing ==
    /\ fpc = "new"
    /\ udsSocket' = UdsSocket(pluggable, componentName)
    /\ \E ok \in BOOLEAN :
         IF ok THEN /\ conn' = "open"
                    /\ fpc' = "init"
                    /\ dialRet' = Returns(<<>>)
                    /\ factoryRet' = factoryRet
         ELSE /\ conn' = conn
              /\ fpc' = "failed"
              /\ dialRet' = Returns(DialError(udsSocket', ErrDial))
              /\ factoryRet' = FactoryFails(dialRet'.err)
    /\ UNCHANGED <<pluggable, componentName, pings, pingRes, inits, initRes>>
    /\ UNCHANGED <<pluginReady, ctxCancelled>>
    /\ UNCHANGED <<sessVars, hostVars>>

Dial ==
    /\ fpc = "new"
    /\ udsSocket' = UdsSocket(pluggable, componentName)
    /\ \E ok \in BOOLEAN :
         IF ok THEN /\ conn' = "open"
                    /\ fpc' = "ping"
                    /\ pings' = pings + 1
                    /\ dialRet' = dialRet
                    /\ factoryRet' = factoryRet
         ELSE /\ conn' = conn
              /\ fpc' = "failed"
              /\ pings' = pings
              /\ dialRet' = Returns(DialError(udsSocket', ErrDial))
              /\ factoryRet' = FactoryFails(dialRet'.err)
    /\ UNCHANGED <<pluggable, componentName, pingRes, inits, initRes>>
    /\ UNCHANGED <<pluginReady, ctxCancelled>>
    /\ UNCHANGED <<sessVars, hostVars>>

\* a unary call through the Connector can succeed only while the plugin
\* serves, the Connector's context is live and the connection is open
CallCanSucceed == pluginReady /\ ~ctxCancelled /\ conn = "open"
\* with WaitForReady the call fails only once the plugin answered with an
\* error, the context was cancelled or the connection was closed
\* a Ping without WaitForReady fails at once while the plugin is not up
PingCanFailFast == TRUE
PingCanFail == pluginReady \/ ctxCancelled \/ conn # "open"

\* Ping(g.Context, WaitForReady(true)) returns inside Dial; on success the
\* factory goes on to Init, on error it returns the error
PingReturn ==
    /\ fpc = "ping"
    /\ \E ok \in BOOLEAN :
         /\ IF ok THEN CallCanSucceed ELSE PingCanFail
         /\ fpc' = IF ok THEN "init" ELSE "failed"
         /\ pingRes' = IF ok THEN "ok" ELSE "err"
         /\ dialRet' = Returns(IF ok THEN <<>>
                                ELSE IF pluginReady /\ ~ctxCancelled /\ conn = "open"
                                     THEN ErrMsg(ErrPlugin)
                                     ELSE ErrMsg(ErrCanceled))
         /\ factoryRet' = IF ok THEN factoryRet ELSE FactoryFails(dialRet'.err)
    /\ UNCHANGED <<pluggable, componentName, udsSocket, pings, inits, initRes>>
    /\ UNCHANGED <<pluginReady, ctxCancelled, conn>>
    /\ UNCHANGED <<sessVars, hostVars>>

\* err.Error() of a failed Init: the plugin's own error while the call could
\* be served, the transport's otherwise
InitError == IF CallCanSucceed THEN ErrMsg(ErrPlugin) ELSE ErrMsg(ErrCanceled)

\* a factory that returns the middleware whatever Init answered
InitReturnIgnoringError ==
    /\ fpc = "init"
    /\ \E ok \in BOOLEAN :
         /\ ok => CallCanSucceed
         /\ fpc' = "ready"
         /\ initRes' = IF ok THEN "ok" ELSE "err"
         /\ factoryRet' = FactoryReturnsMiddleware
    /\ inits' = inits + 1
    /\ UNCHANGED <<pluginReady, ctxCancelled, conn, dialVars>>
    /\ UNCHANGED <<sessVars, hostVars>>

\* Client.Init(connector.Context, ...) is called and returns: the middleware
\* is returned, or the error
InitReturn ==
    /\ fpc = "init"
    /\ \E ok \in BOOLEAN :
         /\ ok => CallCanSucceed
         /\ fpc' = IF ok THEN "ready" ELSE "failed"
         /\ initRes' = IF ok THEN "ok" ELSE "err"
         /\ factoryRet' = IF ok THEN FactoryReturnsMiddleware ELSE FactoryFails(InitError)
    /\ inits' = inits + 1
    /\ UNCHANGED <<pluginReady, ctxCancelled, conn, dialVars>>
    /\ UNCHANGED <<sessVars, hostVars>>

\* a Close that closes the connection and leaves the context alone
CloseWithoutCancel ==
    /\ conn = "open"
    /\ conn' = "closed"
    /\ stream' = [s \in Sessions |-> IF stream[s] = "open" THEN "done" ELSE stream[s]]
    /\ UNCHANGED <<fpc, pluginReady, ctxCancelled, dialVars, factoryVars, hostVars, streamIds>>
    /\ UNCHANGED <<pc, exit, reqDone, sendClosed, plugEnd, inbox, sentN,
                   dispatched, out, nextRunning, nextCount, req, resp>>

\* GRPCConnector.Close, called once on a dialled Connector: g.Cancel() and
\* g.conn.Close(); closing the ClientConn finishes every stream on it
Close ==
    /\ conn = "open"
    /\ ctxCancelled' = TRUE
    /\ conn' = "closed"
    /\ stream' = [s \in Sessions |-> IF stream[s] = "open" THEN "done" ELSE stream[s]]
    /\ UNCHANGED <<fpc, pluginReady, dialVars, factoryVars, hostVars, streamIds>>
    /\ UNCHANGED <<pc, exit, reqDone, sendClosed, plugEnd, inbox, sentN,
                   dispatched, out, nextRunning, nextCount, req, resp>>

(* ------------------------------------------------ the request handler *)
\* a return of the request handler after the stream was opened: the
\* deferred client.CloseSend() runs
Return(s, why) ==
    /\ pc' = [pc EXCEPT ![s] = "returned"]
    /\ exit' = [exit EXCEPT ![s] = why]
    /\ sendClosed' = [sendClosed EXCEPT ![s] = TRUE]

\* a handler that keeps the stream of an earlier request and uses it again
HandleOpenReusing(s) ==
    /\ fpc = "ready"
    /\ pc[s] = "idle"
    /\ \E ok \in BOOLEAN :
         /\ ok => conn = "open"
         /\ IF ok
            THEN /\ stream' = [stream EXCEPT ![s] = "open"]
                 /\ IF \E t \in Sessions : streamOf[t] # 0
                    THEN /\ streams' = streams
                         /\ \E t \in Sessions :
                              /\ streamOf[t] # 0
                              /\ streamOf' = [streamOf EXCEPT ![s] = streamOf[t]]
                    ELSE /\ streams' = streams + 1
                         /\ streamOf' = [streamOf EXCEPT ![s] = s]
                 /\ pc' = [pc EXCEPT ![s] = "select"]
                 /\ UNCHANGED <<exit, resp>>
            ELSE /\ resp' = [resp EXCEPT ![s] =
                        CtxError(ErrMsg(ErrUnavailable), StatusInternalServerError)]
                 /\ pc' = [pc EXCEPT ![s] = "returned"]
                 /\ exit' = [exit EXCEPT ![s] = "openErr"]
                 /\ UNCHANGED <<stream, streams, streamOf>>
    /\ UNCHANGED <<connVars, hostVars>>
    /\ UNCHANGED <<reqDone, sendClosed, plugEnd, inbox, sentN, dispatched, out,
                   nextRunning, nextCount, req>>

\* a handler that returns on a failed Handle without answering the request
HandleOpenSilent(s) ==
    /\ fpc = "ready"
    /\ pc[s] = "idle"
    /\ \E ok \in BOOLEAN :
         /\ ok => conn = "open"
         /\ IF ok
            THEN /\ stream' = [stream EXCEPT ![s] = "open"]
                 /\ streams' = streams + 1
                 /\ streamOf' = [streamOf EXCEPT ![s] = s]
                 /\ pc' = [pc EXCEPT ![s] = "select"]
                 /\ UNCHANGED <<exit, resp>>
            ELSE /\ pc' = [pc EXCEPT ![s] = "returned"]
                 /\ exit' = [exit EXCEPT ![s] = "openErr"]
                 /\ UNCHANGED <<stream, streams, streamOf, resp>>
    /\ UNCHANGED <<connVars, hostVars>>
    /\ UNCHANGED <<reqDone, sendClosed, plugEnd, inbox, sentN, dispatched, out,
                   nextRunning, nextCount, req>>

\* connector.Client.Handle(ctx) for a request entering the middleware: a new
\* stream is opened under the request's context, or the call fails and the
\* request is answered with the error
HandleOpen(s) ==
    /\ fpc = "ready"
    /\ pc[s] = "idle"
    /\ \E ok \in BOOLEAN :
         /\ ok => conn = "open"
         /\ IF ok
            THEN /\ stream' = [stream EXCEPT ![s] = "open"]
                 /\ streams' = streams + 1
                 /\ streamOf' = [streamOf EXCEPT ![s] = s]
                 /\ pc' = [pc EXCEPT ![s] = "select"]
                 /\ UNCHANGED <<exit, resp>>
            ELSE /\ resp' = [resp EXCEPT ![s] =
                        CtxError(ErrMsg(ErrUnavailable), StatusInternalServerError)]
                 /\ pc' = [pc EXCEPT ![s] = "returned"]
                 /\ exit' = [exit EXCEPT ![s] = "openErr"]
                 /\ UNCHANGED <<stream, streams, streamOf>>
    /\ UNCHANGED <<connVars, hostVars>>
    /\ UNCHANGED <<reqDone, sendClosed, plugEnd, inbox, sentN, dispatched, out,
                   nextRunning, nextCount, req>>

\* case <-client.Context().Done(): return
SelectStreamDone(s) ==
    /\ pc[s] = "select"
    /\ stream[s] = "done"
    /\ Return(s, "streamDone")
    /\ UNCHANGED <<connVars, hostVars, streamIds>>
    /\ UNCHANGED <<reqDone, stream, plugEnd, inbox, sentN, dispatched, out,
                   nextRunning, nextCount, req, resp>>

\* a deadline branch that also closes the Connector
SelectTimeoutClosing(s) ==
    /\ pc[s] = "select"
    /\ reqDone[s]
    /\ resp' = [resp EXCEPT ![s] = CtxError(TimeoutMsg, StatusInternalServerError)]
    /\ Return(s, "timeout")
    /\ ctxCancelled' = TRUE
    /\ conn' = "closed"
    /\ stream' = [t \in Sessions |-> IF stream[t] = "open" THEN "done" ELSE stream[t]]
    /\ UNCHANGED <<fpc, pluginReady, dialVars, factoryVars, hostVars, streamIds>>
    /\ UNCHANGED <<reqDone, plugEnd, inbox, sentN, dispatched, out,
                   nextRunning, nextCount, req>>

\* a deadline branch that writes the message as the body and keeps the rest
\* of the response
SelectTimeoutKeeping(s) ==
    /\ pc[s] = "select"
    /\ reqDone[s]
    /\ resp' = [resp EXCEPT ![s] = [@ EXCEPT !.body = TimeoutMsg]]
    /\ Return(s, "timeout")
    /\ UNCHANGED <<connVars, hostVars, streamIds>>
    /\ UNCHANGED <<reqDone, stream, plugEnd, inbox, sentN, dispatched, out,
                   nextRunning, nextCount, req>>

\* case <-ctx.Done(): ctx.Error("timed out waiting for middleware ..."); return
SelectTimeout(s) ==
    /\ pc[s] = "select"
    /\ reqDone[s]
    /\ resp' = [resp EXCEPT ![s] = CtxError(TimeoutMsg, StatusInternalServerError)]
    /\ Return(s, "timeout")
    /\ UNCHANGED <<connVars, hostVars, streamIds>>
    /\ UNCHANGED <<reqDone, stream, plugEnd, inbox, sentN, dispatched, out,
                   nextRunning, nextCount, req>>

\* default: neither channel is ready, the handler calls client.Recv()
SelectDefault(s) ==
    /\ pc[s] = "select"
    /\ stream[s] # "done"
    /\ ~reqDone[s]
    /\ pc' = [pc EXCEPT ![s] = "recv"]
    /\ UNCHANGED <<connVars, hostVars, streamIds>>
    /\ UNCHANGED <<exit, reqDone, stream, sendClosed, plugEnd, inbox, sentN,
                   dispatched, out, nextRunning, nextCount, req, resp>>

\* a receive that reads the stream twice and keeps the second message
RecvSkipping(q) ==
    IF Len(q) > 1 THEN [msg |-> q[2], rest |-> Tail(Tail(q))]
    ELSE [msg |-> Head(q), rest |-> Tail(q)]

\* client.Recv() on a stream with messages: the oldest one, and what is left
Recv(q) == [msg |-> Head(q), rest |-> Tail(q)]

\* h started on its own (go h(ctx)): the loop goes on at once
DispatchExecNextAsync(s) ==
    /\ nextRunning' = [nextRunning EXCEPT ![s] = TRUE]
    /\ nextCount' = [nextCount EXCEPT ![s] = @ + 1]
    /\ pc' = [pc EXCEPT ![s] = "select"]
    /\ UNCHANGED <<exit, sendClosed, out, req, resp>>

\* an ExecNext that is rejected as a protocol error when h already ran
DispatchExecNextOnce(s) ==
    IF nextCount[s] = 0
    THEN /\ nextRunning' = [nextRunning EXCEPT ![s] = TRUE]
         /\ nextCount' = [nextCount EXCEPT ![s] = @ + 1]
         /\ pc' = [pc EXCEPT ![s] = "next"]
         /\ UNCHANGED <<exit, sendClosed, out, req, resp>>
    ELSE /\ resp' = [resp EXCEPT ![s] =
                CtxError(ErrMsg(ErrPlugin), StatusInternalServerError)]
         /\ Return(s, "dispatchErr")
         /\ UNCHANGED <<nextRunning, nextCount, out, req>>

\* case *proto.Command_ExecNext: h(ctx), up to the call
DispatchExecNext(s) ==
    /\ nextRunning' = [nextRunning EXCEPT ![s] = TRUE]
    /\ nextCount' = [nextCount EXCEPT ![s] = @ + 1]
    /\ pc' = [pc EXCEPT ![s] = "next"]
    /\ UNCHANGED <<exit, sendClosed, out, req, resp>>

\* handleCommand(cmd) for the other commands, and the handler's reaction to
\* its error; client.Send succeeds while the plugin has not ended the stream
DispatchCommand(s, cmd) ==
    LET r == commandHandler(cmd, req[s], resp[s], plugEnd[s] = "no")
    IN /\ req' = [req EXCEPT ![s] = r.req]
       /\ out' = [out EXCEPT ![s] = @ \o r.sent]
       /\ IF r.err = None
          THEN /\ resp' = [resp EXCEPT ![s] = r.resp]
               /\ pc' = [pc EXCEPT ![s] = "select"]
               /\ UNCHANGED <<exit, sendClosed>>
          ELSE /\ resp' = [resp EXCEPT ![s] =
                      CtxError(ErrMsg(r.err), StatusInternalServerError)]
               /\ Return(s, "dispatchErr")
       /\ UNCHANGED <<nextRunning, nextCount>>

\* cmd, err := client.Recv() returns a command; handleCommand(cmd)
RecvCommand(s) ==
    /\ pc[s] = "recv"
    /\ stream[s] = "open"
    /\ inbox[s] # <<>>
    /\ LET r == Recv(inbox[s])
       IN /\ inbox' = [inbox EXCEPT ![s] = r.rest]
          /\ dispatched' = [dispatched EXCEPT ![s] = Append(@, r.msg)]
          /\ IF r.msg.cmd.op = "ExecNext"
             THEN DispatchExecNext(s)
             ELSE DispatchCommand(s, r.msg.cmd)
    /\ UNCHANGED <<connVars, hostVars, streamIds>>
    /\ UNCHANGED <<reqDone, stream, plugEnd, sentN>>

\* io.EOF handled like any other error of Recv
RecvEOFAsError(s) ==
    /\ pc[s] = "recv"
    /\ stream[s] = "open"
    /\ inbox[s] = <<>>
    /\ plugEnd[s] = "eof"
    /\ stream' = [stream EXCEPT ![s] = "done"]
    /\ resp' = [resp EXCEPT ![s] = CtxError(ErrMsg(ErrEOF), StatusInternalServerError)]
    /\ Return(s, "eof")
    /\ UNCHANGED <<connVars, hostVars, streamIds>>
    /\ UNCHANGED <<reqDone, plugEnd, inbox, sentN, dispatched, out,
                   nextRunning, nextCount, req>>

\* client.Recv() returns io.EOF: return
RecvEOF(s) ==
    /\ pc[s] = "recv"
    /\ stream[s] = "open"
    /\ inbox[s] = <<>>
    /\ plugEnd[s] = "eof"
    /\ stream' = [stream EXCEPT ![s] = "done"]
    /\ Return(s, "eof")
    /\ UNCHANGED <<connVars, hostVars, streamIds>>
    /\ UNCHANGED <<reqDone, plugEnd, inbox, sentN, dispatched, out,
                   nextRunning, nextCount, req, resp>>

\* the error of Recv answered, but the loop goes on (no return)
RecvErrNoReturn(s) ==
    /\ pc[s] = "recv"
    /\ \/ stream[s] = "done"
       \/ stream[s] = "open" /\ inbox[s] = <<>> /\ plugEnd[s] = "err"
    /\ resp' = [resp EXCEPT ![s] =
           CtxError(ErrMsg(IF stream[s] = "done" THEN ErrCanceled ELSE ErrUnavailable),
                    StatusInternalServerError)]
    /\ stream' = [stream EXCEPT ![s] = "done"]
    /\ pc' = [pc EXCEPT ![s] = "select"]
    /\ exit' = [exit EXCEPT ![s] = "recvErr"]
    /\ UNCHANGED <<connVars, hostVars, streamIds>>
    /\ UNCHANGED <<reqDone, sendClosed, plugEnd, inbox, sentN, dispatched, out,
                   nextRunning, nextCount, req>>

\* client.Recv() returns another error (the stream was cancelled or closed
\* with the connection, or the plugin ended it with an error):
\* ctx.Error(err.Error(), 500); return
RecvErr(s) ==
    /\ pc[s] = "recv"
    /\ \/ stream[s] = "done"
       \/ stream[s] = "open" /\ inbox[s] = <<>> /\ plugEnd[s] = "err"
    /\ resp' = [resp EXCEPT ![s] =
           CtxError(ErrMsg(IF stream[s] = "done" THEN ErrCanceled ELSE ErrUnavailable),
                    StatusInternalServerError)]
    /\ stream' = [stream EXCEPT ![s] = "done"]
    /\ Return(s, "recvErr")
    /\ UNCHANGED <<connVars, hostVars, streamIds>>
    /\ UNCHANGED <<reqDone, plugEnd, inbox, sentN, dispatched, out,
                   nextRunning, nextCount, req>>

\* h(ctx) returns: the next handler has written its response
NextReturn(s) ==
    /\ nextRunning[s]
    /\ \E o \in HandlerOutcomes :
         resp' = [resp EXCEPT ![s] = [@ EXCEPT !.status = o.status, !.body = o.body]]
    /\ nextRunning' = [nextRunning EXCEPT ![s] = FALSE]
    /\ pc' = [pc EXCEPT ![s] = IF @ = "next" THEN "select" ELSE @]
    /\ UNCHANGED <<connVars, hostVars, streamIds>>
    /\ UNCHANGED <<exit, reqDone, stream, sendClosed, plugEnd, inbox, sentN,
                   dispatched, out, nextCount, req>>

(* -------------------------------------------- the plugin and the caller *)
\* the plugin sends a command on its open stream
Send(s, c) ==
    /\ stream[s] = "open"
    /\ plugEnd[s] = "no"
    /\ inbox' = [inbox EXCEPT ![s] = Append(@, [seq |-> sentN[s] + 1, cmd |-> c])]
    /\ sentN' = [sentN EXCEPT ![s] = @ + 1]
    /\ UNCHANGED <<connVars, hostVars, streamIds>>
    /\ UNCHANGED <<pc, exit, reqDone, stream, sendClosed, plugEnd, dispatched,
                   out, nextRunning, nextCount, req, resp>>

PluginSend(s) ==
    /\ sentN[s] < MaxCmds
    /\ \E c \in Commands : Send(s, c)

\* the plugin ends the stream: cleanly, or with an error
PluginEnd(s) ==
    /\ stream[s] = "open"
    /\ plugEnd[s] = "no"
    /\ \E how \in {"eof", "err"} : plugEnd' = [plugEnd EXCEPT ![s] = how]
    /\ UNCHANGED <<connVars, hostVars, streamIds>>
    /\ UNCHANGED <<pc, exit, reqDone, stream, sendClosed, inbox, sentN,
                   dispatched, out, nextRunning, nextCount, req, resp>>

\* the deadline or cancellation of an in-flight request fires: ctx.Done() is
\* closed, and with it the stream opened under ctx is finished
ReqCancel(s) ==
    /\ pc[s] \in {"select", "recv", "next"}
    /\ ~reqDone[s]
    /\ reqDone' = [reqDone EXCEPT ![s] = TRUE]
    /\ stream' = [stream EXCEPT ![s] = IF @ = "open" THEN "done" ELSE @]
    /\ UNCHANGED <<connVars, hostVars, streamIds>>
    /\ UNCHANGED <<pc, exit, sendClosed, plugEnd, inbox, sentN, dispatched, out,
                   nextRunning, nextCount, req, resp>>

(* -------------------------------------------------------- specification *)
\* one request; an earlier layer of the host may have parsed its URI
Init ==
    /\ InitMiddleware
    /\ InitHost
    /\ InitSessions({1})
    /\ \E uriParsed \in BOOLEAN : req = [s \in {1} |-> NewRequest(uriParsed)]

Factory == PluginStarts \/ Dial \/ PingReturn \/ InitReturn

\* the request handler of one request, and what happens around it
Handler ==
    \/ \E s \in Sessions : HandleOpen(s)
    \/ \E s \in Sessions : SelectStreamDone(s)
    \/ \E s \in Sessions : SelectTimeout(s)
    \/ \E s \in Sessions : SelectDefault(s)
    \/ \E s \in Sessions : RecvCommand(s)
    \/ \E s \in Sessions : RecvEOF(s)
    \/ \E s \in Sessions : RecvErr(s)
    \/ \E s \in Sessions : NextReturn(s)

Around ==
    \/ Close
    \/ \E s \in Sessions : PluginEnd(s)
    \/ \E s \in Sessions : ReqCancel(s)

Next ==
    \/ Factory
    \/ Handler
    \/ Around
    \/ \E s \in Sessions : PluginSend(s)

Spec == Init /\ [][Next]_vars

(* ------------------------------ several requests on the same Connector *)
RECURSIVE SumTo(_, _)
SumTo(f, n) == IF n = 0 THEN 0 ELSE f[n] + SumTo(f, n - 1)

\* the plugin sends a command on one of its streams
\* on concurrent streams the plugin asks for the host's own processing
ConcCommands == {ExecNextCommand}

\* (the sessions are interchangeable: the stream that carries the commands
\* is the one called 1)
PluginSendConc(s) ==
    /\ s = 1
    /\ SumTo(sentN, NumSessions) < MaxCmdsConc
    /\ \E c \in ConcCommands : Send(s, c)

InitConc ==
    /\ InitMiddleware
    /\ InitHost
    /\ InitSessions(1 .. NumSessions)
    /\ req = [s \in 1 .. NumSessions |-> NewRequest(FALSE)]

NextConc ==
    \/ Factory
    \/ Handler
    \/ Around
    \/ \E s \in Sessions : PluginSendConc(s)

SpecConc == InitConc /\ [][NextConc]_vars

(* ----------------------------- a request with a header received twice *)
InitRepeated ==
    /\ InitMiddleware
    /\ InitHost
    /\ InitSessions({1})
    /\ \E uriParsed \in BOOLEAN :
         req = [s \in {1} |-> RequestWith(RepeatedHeaders, uriParsed)]

SpecRepeated == InitRepeated /\ [][Next]_vars

(* ------------------------------------- registering pluggable components *)
\* descriptors Register is called with
RegisterPluggables ==
    {EmptyPluggable, Descriptor(State, <<"a">>, <<"v", "1">>), MiddlewarePluggable}
RegisterLists == UNION {[1 .. k -> RegisterPluggables] : k \in 1 .. 2}

\* AddRegistryFor(cmpType, regFunc, factory)
AddRegistryFor ==
    /\ \E ty \in RegistryTypes, f \in RegisterFuncs :
         registries' = [registries EXCEPT ![ty] = f]
    /\ UNCHANGED <<warned, registerCalled, registered, mapCalled, regCalls, regArg, regRet>>
    /\ UNCHANGED <<connVars, sessVars, loaderVars>>

\* a Register that builds the component while registering it
RegisterBuilding ==
    /\ regCalls < MaxRegisterCalls
    /\ \E ps \in RegisterLists :
         LET r == RegisterAll(registries, ps)
         IN /\ regArg' = ps
            /\ regRet' = r.count
            /\ warned' = warned + r.warns
            /\ registerCalled' =
                  [f \in RegisterFuncs |-> registerCalled[f] + CallsOf(r.calls, f)]
            /\ registered' = registered \o r.calls
            /\ mapCalled' = mapCalled + r.count
    /\ regCalls' = regCalls + 1
    /\ UNCHANGED registries
    /\ UNCHANGED <<connVars, sessVars, loaderVars>>

\* a Register that counts the descriptors it was given
RegisterCountingAll ==
    /\ regCalls < MaxRegisterCalls
    /\ \E ps \in RegisterLists :
         LET r == RegisterAll(registries, ps)
         IN /\ regArg' = ps
            /\ regRet' = Len(ps)
            /\ warned' = warned + r.warns
            /\ registerCalled' =
                  [f \in RegisterFuncs |-> registerCalled[f] + CallsOf(r.calls, f)]
            /\ registered' = registered \o r.calls
    /\ regCalls' = regCalls + 1
    /\ UNCHANGED <<registries, mapCalled>>
    /\ UNCHANGED <<connVars, sessVars, loaderVars>>

\* Register(pluggables...)
Register ==
    /\ regCalls < MaxRegisterCalls
    /\ \E ps \in RegisterLists :
         LET r == RegisterAll(registries, ps)
         IN /\ regArg' = ps
            /\ regRet' = r.count
            /\ warned' = warned + r.warns
            /\ registerCalled' =
                  [f \in RegisterFuncs |-> registerCalled[f] + CallsOf(r.calls, f)]
            /\ registered' = registered \o r.calls
    /\ regCalls' = regCalls + 1
    /\ UNCHANGED <<registries, mapCalled>>
    /\ UNCHANGED <<connVars, sessVars, loaderVars>>

\* the host builds a component with a factory that was registered: the
\* component factory given to AddRegistryFor is called with the descriptor
ComponentFactory ==
    /\ mapCalled < Len(registered)
    /\ mapCalled' = mapCalled + 1
    /\ UNCHANGED <<registries, warned, registerCalled, registered, regCalls, regArg, regRet>>
    /\ UNCHANGED <<connVars, sessVars, loaderVars>>

\* the registries of a build, or the empty map a test starts from
InitRegistering ==
    /\ InitConnector
    /\ pluggable = MiddlewarePluggable
    /\ componentName = NameChars
    /\ InitSessions({})
    /\ req = <<>>
    /\ \E regs \in {InitialRegistries, NoRegistries} : InitRegistry(regs)
    /\ InitLoader(NewRuntimeOpts)

NextRegistering ==
    \/ AddRegistryFor
    \/ Register
    \/ ComponentFactory

SpecRegistry == InitRegistering /\ [][NextRegistering]_vars

(* --------------------------------------- loading pluggable components *)
\* descriptors WithPluggables is called with
LoaderPluggables ==
    {Descriptor(State, <<"a">>, <<"v", "1">>), Descriptor(Custom, <<"b">>, <<"v", "1">>),
     Descriptor(State, <<"c">>, <<"v", "1">>), Descriptor(PubSub, <<"a">>, <<"v", "1">>)}
PluggableLists == UNION {[1 .. k -> LoaderPluggables] : k \in 0 .. MaxPluggables}

\* useOption(componentType, add), in init() or by a test that stubs a loader
UseOption ==
    /\ lpc = "idle"
    /\ Len(useOptions) < Len(InitUseOptions) + MaxUseOptions
    /\ \E ty \in {State, Custom}, add \in Adders :
         /\ useOptions' = Append(useOptions, [type |-> ty, add |-> add])
         /\ pluggableOptions' = useOption(pluggableOptions, ty, add, Len(useOptions'))
    /\ UNCHANGED <<lpc, pluggables, opts, mustLoaded, failedAt, runtimeOpts>>
    /\ UNCHANGED <<connVars, sessVars, registryVars>>

\* a WithPluggables that applies each Option as soon as it is built
WithPluggablesApplying ==
    /\ lpc = "idle"
    /\ \E ps \in PluggableLists, k \in 0 .. MaxPluggables :
         /\ k <= Len(ps)
         /\ k > 0 => LoaderFor(pluggableOptions, ps[k]) # NoLoader
         /\ pluggables' = ps
         /\ failedAt' = k
         /\ IF k = 0
            THEN /\ lpc' = "built"
                 /\ opts' = <<>>
                 /\ mustLoaded' = MustLoads(pluggableOptions, ps)
                 /\ runtimeOpts' = withOpts(LoadAll(pluggableOptions, ps), runtimeOpts)
            ELSE /\ lpc' = "panicked"
                 /\ opts' = <<>>
                 /\ mustLoaded' = MustLoads(pluggableOptions, SubSeq(ps, 1, k))
                 /\ runtimeOpts' =
                       withOpts(LoadAll(pluggableOptions, SubSeq(ps, 1, k - 1)), runtimeOpts)
    /\ UNCHANGED <<pluggableOptions, useOptions>>
    /\ UNCHANGED <<connVars, sessVars, registryVars>>

\* WithPluggables(pluggables...): the loop loads every descriptor of a known
\* type and the Options are returned as one; a load that fails (k-th
\* descriptor) ends the call there
WithPluggables ==
    /\ lpc = "idle"
    /\ \E ps \in PluggableLists, k \in 0 .. MaxPluggables :
         /\ k <= Len(ps)
         /\ k > 0 => LoaderFor(pluggableOptions, ps[k]) # NoLoader
         /\ pluggables' = ps
         /\ failedAt' = k
         /\ IF k = 0
            THEN /\ lpc' = "built"
                 /\ opts' = LoadAll(pluggableOptions, ps)
                 /\ mustLoaded' = MustLoads(pluggableOptions, ps)
            ELSE /\ lpc' = "panicked"
                 /\ opts' = <<>>
                 /\ mustLoaded' = MustLoads(pluggableOptions, SubSeq(ps, 1, k))
    /\ UNCHANGED <<pluggableOptions, useOptions, runtimeOpts>>
    /\ UNCHANGED <<connVars, sessVars, registryVars>>

\* the Option WithPluggables returned is applied to the runtimeOpts
ApplyOptions ==
    /\ lpc = "built"
    /\ runtimeOpts' = withOpts(opts, runtimeOpts)
    /\ lpc' = "applied"
    /\ UNCHANGED <<pluggableOptions, useOptions, pluggables, opts, mustLoaded, failedAt>>
    /\ UNCHANGED <<connVars, sessVars, registryVars>>

InitLoading ==
    /\ InitConnector
    /\ pluggable = MiddlewarePluggable
    /\ componentName = NameChars
    /\ InitSessions({})
    /\ req = <<>>
    /\ InitRegistry(InitialRegistries)
    /\ \E ro \in InitialRuntimeOpts : InitLoader(ro)

NextLoading ==
    \/ UseOption
    \/ WithPluggables
    \/ ApplyOptions

SpecLoader == InitLoading /\ [][NextLoading]_vars

(* ------------------------------------------ a Connector dialled by itself *)
\* descriptors and component names a Connector is created and dialled with
DialPluggables ==
    {Descriptor(ty, n, <<"v", "1">>) : ty \in {State, PubSub}, n \in {<<"a">>, <<"b">>, <<"a", "b">>}}
DialComponentNames == {<<"a">>, <<"c">>}

InitDial ==
    /\ InitConnector
    /\ InitHost
    /\ pluggable \in DialPluggables
    /\ componentName \in DialComponentNames
    /\ InitSessions({})
    /\ req = <<>>

\* NewGRPCConnector, Dial (with its Ping) and Close, while the plugin starts
\* at any time
NextDial ==
    \/ PluginStarts
    \/ Dial
    \/ PingReturn
    \/ Close

SpecDial == InitDial /\ [][NextDial]_vars

\* the transport completes a call that can complete
SpecDialFair == SpecDial /\ WF_vars(PingReturn)

(* ---------------------------------------- addresses of many components *)
\* descriptor fields and component names: non-empty texts over letters and
\* the two characters the address format itself puts between the fields
Alphabet == {"a", "-", "."}
Texts == UNION {[1 .. k -> Alphabet] : k \in 1 .. MaxLen}
AddrPluggables == {Descriptor(ty, n, v) : ty \in {State, PubSub}, n \in Texts, v \in Texts}

InitAddr ==
    /\ InitConnector
    /\ InitHost
    /\ pluggable \in AddrPluggables
    /\ componentName \in Texts
    /\ InitSessions({})
    /\ req = <<>>

\* the Connector of any component is dialled: the address is derived
NextAddr == Dial

SpecAddr == InitAddr /\ [][NextAddr]_vars

(* ------------------------------------------------------------ properties *)
Returned(s) == pc[s] = "returned"

\* a text names the plugin when metadata.Name is part of it
NamesPlugin(text) == \E i \in 1 .. Len(text) : text[i] = Name

\* C1: a session in which the plugin neither ends the stream nor leaves a
\* command unreceived, and whose request deadline fires, ends with status 500
\* and a message that names the plugin.
C1_DeadlineAnsweredWithTimeout ==
    \A s \in Sessions :
        (Returned(s) /\ reqDone[s] /\ plugEnd[s] = "no" /\ inbox[s] = <<>>
            /\ conn = "open")
        => /\ resp[s].status = StatusInternalServerError
           /\ NamesPlugin(resp[s].body)

\* C2: after the request handler has returned, the stream it opened is not
\* open any more, whatever the exit path.
C2_NoStreamOpenAfterReturn ==
    \A s \in Sessions : Returned(s) => stream[s] # "open"

\* C3: the commands dispatched in a session are, in order, the first
\* commands the plugin sent on the stream: the i-th dispatched message is the
\* i-th message sent.
C3_DispatchedInSendingOrder ==
    \A s \in Sessions :
        /\ Len(dispatched[s]) <= sentN[s]
        /\ \A i \in 1 .. Len(dispatched[s]) : dispatched[s][i].seq = i

C3_Witness ==
    \E s \in Sessions :
        /\ Len(dispatched[s]) >= 2
        /\ dispatched[s][1].cmd # dispatched[s][2].cmd

\* everything that belongs to the session of one request
Session(s) ==
    <<pc[s], exit[s], reqDone[s], stream[s], sendClosed[s], plugEnd[s], inbox[s],
      sentN[s], dispatched[s], out[s], nextRunning[s], nextCount[s], req[s], resp[s]>>

\* C4: while the next handler invoked by ExecNext is running, the session
\* neither receives nor dispatches a command and nothing else touches its
\* request or response; the loop goes on only once h has returned.
C4_NextHandlerRunsInLine ==
    [][\A s \in Sessions :
          nextRunning[s] =>
              /\ pc[s] = "next"
              /\ nextRunning'[s] =>
                    /\ dispatched'[s] = dispatched[s]
                    /\ Len(inbox'[s]) >= Len(inbox[s])
                    /\ out'[s] = out[s]
                    /\ nextCount'[s] = nextCount[s]
                    /\ req'[s] = req[s]
                    /\ resp'[s] = resp[s]]_vars

C4_Witness ==
    \E s \in Sessions : nextRunning[s] /\ inbox[s] # <<>> /\ stream[s] = "open"

CleanExits == {"eof", "streamDone"}

\* C5: ExecNext, later SetResponseBody{data}, no body-changing command after
\* it, and then a clean end of the stream: the final body is exactly data.
C5_BodyIsDataAfterNext ==
    \A s \in Sessions :
        (Returned(s) /\ exit[s] \in CleanExits) =>
            \A i, j \in 1 .. Len(dispatched[s]) :
                (/\ i < j
                 /\ dispatched[s][i].cmd.op = "ExecNext"
                 /\ dispatched[s][j].cmd.op = "SetRespBody"
                 /\ \A k \in (j + 1) .. Len(dispatched[s]) :
                        dispatched[s][k].cmd.op \notin {"ExecNext", "SetRespBody"})
                => resp[s].body = dispatched[s][j].cmd.data

C5_Witness ==
    \E s \in Sessions :
        /\ Returned(s)
        /\ exit[s] = "eof"
        /\ Len(dispatched[s]) = 2
        /\ dispatched[s][1].cmd.op = "ExecNext"
        /\ dispatched[s][2].cmd.op = "SetRespBody"
        /\ nextCount[s] = 1

\* the number of read commands among the first n dispatched messages
RECURSIVE Reads(_, _)
Reads(d, n) ==
    IF n = 0 THEN 0
    ELSE Reads(d, n - 1)
         + (IF d[n].cmd.op \in {"GetReqBody", "GetRespBody", "GetRespHeaders", "GetReqHeaders"}
            THEN 1 ELSE 0)

\* C6: a GetRequestHeaders dispatched right after SetRequestHeaders{headers,
\* method, uri} is answered with every header of the Set command at its given
\* value, and with the supplied method and URI where they were non-empty.
C6_GetReflectsSet ==
    \A s \in Sessions :
        \A i \in 1 .. (Len(dispatched[s]) - 1) :
            LET set == dispatched[s][i].cmd
                n == Reads(dispatched[s], i + 1)
            IN (/\ set.op = "SetReqHeaders"
                /\ dispatched[s][i + 1].cmd.op = "GetReqHeaders"
                /\ Len(out[s]) >= n)
               => /\ \A k \in HeaderKeys :
                        set.headers[k] # None => out[s][n].headers[k] = set.headers[k]
                  /\ set.method # "" => out[s][n].method = set.method
                  /\ set.uri # "" => out[s][n].uri = <<set.uri>>

ErrorExits == {"recvErr", "dispatchErr"}
ErrorTexts == {ErrMsg(ErrEOF), ErrMsg(ErrCanceled), ErrMsg(ErrUnavailable)}

\* C7: an error of Recv other than end-of-stream, or a CommandResponse that
\* cannot be sent, ends the session at once with a 500 carrying the error and
\* touches neither the Connector nor another session; afterwards the handler
\* has returned, nothing more is received or dispatched, and the next handler
\* is not invoked.
C7_ErrorEndsSession ==
    [][\A s \in Sessions :
          /\ (exit'[s] \in ErrorExits /\ exit[s] \notin ErrorExits) =>
                /\ pc'[s] = "returned"
                /\ resp'[s].status = StatusInternalServerError
                /\ resp'[s].body \in ErrorTexts
                /\ nextCount'[s] = nextCount[s]
                /\ ~nextRunning'[s]
                /\ connVars' = connVars
                /\ \A t \in Sessions \ {s} : Session(t)' = Session(t)
          /\ exit[s] \in ErrorExits =>
                /\ pc'[s] = "returned"
                /\ exit'[s] = exit[s]
                /\ inbox'[s] = inbox[s]
                /\ dispatched'[s] = dispatched[s]
                /\ out'[s] = out[s]
                /\ nextCount'[s] = nextCount[s]
                /\ resp'[s] = resp[s]]_vars

C7_Witness ==
    \E s \in Sessions :
        /\ exit[s] = "recvErr"
        /\ inbox[s] # <<>>
        /\ resp[s].status = StatusInternalServerError

\* C8: when the handler sees the end of the stream (io.EOF from Recv, or the
\* stream's done signal) it returns and leaves request and response as they
\* were at that moment, and they stay so.
C8_CleanEndAltersNothing ==
    [][\A s \in Sessions :
          /\ (exit'[s] \in CleanExits /\ exit[s] \notin CleanExits) =>
                /\ pc'[s] = "returned"
                /\ resp'[s] = resp[s]
                /\ req'[s] = req[s]
          /\ exit[s] \in CleanExits =>
                /\ pc'[s] = "returned"
                /\ resp'[s] = resp[s]
                /\ req'[s] = req[s]]_vars

C8_Witness ==
    \E s \in Sessions :
        /\ exit[s] = "eof"
        /\ nextCount[s] > 0
        /\ resp[s].body \in {o.body : o \in HandlerOutcomes}
        /\ Len(dispatched[s]) = 2

\* C9: the firing of one request's deadline, and the handler's deadline
\* branch taken for it, change nothing of the Connector (context, channel)
\* and nothing of any other session.
C9_DeadlineConfinedToItsSession ==
    [][\A s \in Sessions :
          (\/ reqDone'[s] /\ ~reqDone[s]
           \/ exit'[s] = "timeout" /\ exit[s] # "timeout")
          => /\ ctxCancelled' = ctxCancelled
             /\ conn' = conn
             /\ \A t \in Sessions \ {s} : Session(t)' = Session(t)]_vars

InFlight(s) == pc[s] \in {"select", "recv", "next"}

C9_Witness ==
    \E s, t \in Sessions :
        /\ s # t
        /\ exit[s] = "timeout"
        /\ InFlight(t) /\ stream[t] = "open" /\ ~reqDone[t]
        /\ nextCount[t] > 0
        /\ conn = "open" /\ ~ctxCancelled

\* C10: once Close has run, the Connector's context is cancelled, its channel
\* is closed and no stream opened through it is open; from then on no Ping or
\* Init through it succeeds and no stream is opened.
C10_CloseAbortsEveryCall ==
    [][conn' = "closed" =>
          /\ ctxCancelled'
          /\ \A s \in Sessions : stream'[s] # "open"
          /\ conn = "closed" => (fpc' = fpc \/ fpc' = "failed")]_vars

C10_Witness ==
    /\ conn = "closed"
    /\ \A s \in Sessions : stream[s] = "done" /\ InFlight(s) /\ ~reqDone[s]

\* a text contains another one
Contains(text, part) ==
    \E i \in 0 .. Len(text) - Len(part) : SubSeq(text, i + 1, i + Len(part)) = part

DialSucceeded == dialRet.returned /\ dialRet.err = <<>>

\* C11: Dial opens the channel at the derived address and then performs
\* exactly one Ping before it returns: it returns success only if the channel
\* was opened and the Ping succeeded; if opening the channel fails, it returns
\* an error that identifies the address and no Ping is issued.
C11_DialOpensThenPingsOnce ==
    /\ pings <= 1
    /\ conn # "nil" =>
          /\ udsSocket = <<"u", "n", "i", "x", ":", "/", "/">> \o socketsFolder
                \o <<"/", "d", "a", "p", "r", "-">> \o pluggable.Type \o <<".">>
                \o pluggable.Name \o <<"-">> \o pluggable.Version \o <<"-">>
                \o componentName \o <<".", "s", "o", "c", "k">>
          /\ pings = 1
    /\ dialRet.returned /\ conn # "nil" => pingRes # "none"
    /\ DialSucceeded => conn # "nil" /\ pings = 1 /\ pingRes = "ok"
    /\ dialRet.returned /\ conn = "nil" =>
          /\ dialRet.err # <<>>
          /\ Contains(dialRet.err, udsSocket)
          /\ Len(udsSocket) > 0
          /\ pings = 0
    /\ pingRes = "err" => dialRet.returned /\ dialRet.err # <<>>

C11_Witness ==
    /\ DialSucceeded
    /\ pings = 1
    /\ conn = "open"

Pinging == fpc = "ping"

\* C12: a Ping issued while the plugin is not yet ready does not fail because
\* of the unavailability: it returns only once the plugin is ready or the
\* Connector's context is cancelled, with an error if the plugin is not
\* ready; and once one of the two has happened, the Ping eventually returns.
C12_PingWaitsForReady ==
    /\ [][Pinging /\ ~Pinging' =>
            /\ pluginReady \/ ctxCancelled
            /\ pingRes' = "ok" => pluginReady
            /\ ~pluginReady => pingRes' = "err" /\ ctxCancelled]_vars
    /\ (Pinging /\ (pluginReady \/ ctxCancelled)) ~> ~Pinging

\* the Ping is issued and waits: the plugin is not ready, nothing is cancelled
C12_Witness ==
    /\ Pinging
    /\ pings = 1
    /\ ~pluginReady
    /\ ~ctxCancelled

Derived == udsSocket # <<>>

\* C13: the derived address is a function of (socket root, type, name,
\* version, instance name): deriving again with the same inputs gives the
\* address that was dialled, and a descriptor that differs only in its name
\* gives a different address.
C13_AddressFollowsName ==
    Derived =>
      \A n \in Texts :
         LET other == Descriptor(pluggable.Type, n, pluggable.Version)
             again == <<"u", "n", "i", "x", ":", "/", "/">> \o socketPathFor(other, componentName)
         IN (again = udsSocket) <=> (n = pluggable.Name)

\* an address was derived for a name that contains both separators
C13_Witness ==
    /\ Derived
    /\ pluggable.Name = <<"-", ".">>

\* C14: for a fixed socket root the derivation is injective over (type,
\* name, version, instance name): any other tuple, different in at least one
\* field, derives a different address.
C14_AddressInjective ==
    Derived =>
      \A other \in AddrPluggables, cn \in Texts :
         (other # pluggable \/ cn # componentName) =>
            <<"u", "n", "i", "x", ":", "/", "/">> \o socketPathFor(other, cn) # udsSocket

\* a Register call with one descriptor returns in this step
RegistersOne == regCalls' = regCalls + 1 /\ Len(regArg') = 1

\* C15: registering a descriptor whose type has no registry entry returns 0,
\* logs exactly one warning, calls no register function and no component
\* factory, and leaves the registry as it was.
C15_UnknownTypeOnlyWarns ==
    [][RegistersOne /\ RegistryFor(registries, regArg'[1]) = None =>
         /\ regRet' = 0
         /\ warned' = warned + 1
         /\ registerCalled' = registerCalled
         /\ registered' = registered
         /\ mapCalled' = mapCalled
         /\ registries' = registries]_vars

\* the empty descriptor was registered against an empty map
C15_Witness ==
    /\ regCalls = 1
    /\ regArg = <<EmptyPluggable>>
    /\ registries = NoRegistries
    /\ warned = 1

\* C16: after AddRegistryFor(T, registerFunc, factory), registering a
\* descriptor of type T returns 1, logs no warning and calls registerFunc
\* exactly once; the component factory is not called by Register.
C16_KnownTypeRegistersOnce ==
    [][RegistersOne /\ RegistryFor(registries, regArg'[1]) # None =>
         /\ regRet' = 1
         /\ warned' = warned
         /\ registerCalled' =
               [registerCalled EXCEPT ![RegistryFor(registries, regArg'[1])] = @ + 1]
         /\ Len(registered') = Len(registered) + 1
         /\ registered'[Len(registered')].pc = regArg'[1]
         /\ mapCalled' = mapCalled]_vars

\* a State descriptor was registered after AddRegistryFor(State, registerFunc)
C16_Witness ==
    /\ regCalls = 1
    /\ Len(regArg) = 1
    /\ regArg[1].Type = State
    /\ registries[State] = "registerFunc"
    /\ registerCalled["registerFunc"] = 1
    /\ regRet = 1

\* the descriptors of a list whose type has a loader
KnownOf(ps) == SelectSeq(ps, LAMBDA d : LoaderFor(pluggableOptions, d) # NoLoader)
\* the list an add function appends to
FieldOf(add) == IF add = "WithStates" THEN "states" ELSE "pubsubs"
Loaded == lpc \in {"built", "applied"}

\* C17: once a loader is registered for a type, resolving a descriptor of that
\* type gives a capability built by that loader, with exactly one load per
\* resolve: WithPluggables loads each descriptor of a known type exactly once
\* and each contributes exactly one capability.
C17_OneLoadPerKnownDescriptor ==
    Loaded =>
      LET known == KnownOf(pluggables)
      IN /\ Len(mustLoaded) = Len(known)
         /\ Len(opts) = Len(known)
         /\ \A i \in 1 .. Len(known) :
              /\ mustLoaded[i].pc = known[i]
              /\ mustLoaded[i].by = pluggableOptions[known[i].Type]
              /\ opts[i].items = <<[pc |-> known[i]]>>
              /\ opts[i].field = FieldOf(pluggableOptions[known[i].Type].add)

\* a descriptor of a type registered after init() was loaded
C17_Witness ==
    /\ Loaded
    /\ Len(pluggables) = MaxPluggables
    /\ \E i \in 1 .. Len(mustLoaded) : mustLoaded[i].pc.Type = Custom

\* the ordinal of the last useOption call for a type, 0 if there is none
RECURSIVE LastUseOption(_, _)
LastUseOption(ty, n) ==
    IF n = 0 THEN 0
    ELSE IF useOptions[n].type = ty THEN n ELSE LastUseOption(ty, n - 1)

\* C18: after any sequence of registrations the registry holds, per type, the
\* constructor registered last (none if there is none): a re-registration
\* replaces the earlier constructor, and every later resolve of a descriptor
\* of the type uses the new constructor.
C18_LastRegistrationWins ==
    /\ \A ty \in OptionTypes :
         LET n == LastUseOption(ty, Len(useOptions))
         IN pluggableOptions[ty] =
              IF n = 0 THEN NoLoader ELSE [add |-> useOptions[n].add, ord |-> n]
    /\ \A i \in 1 .. Len(mustLoaded) :
         LET n == LastUseOption(mustLoaded[i].pc.Type, Len(useOptions))
         IN /\ mustLoaded[i].by.ord = n
            /\ mustLoaded[i].by.add = useOptions[n].add
    /\ Loaded =>
         \A i \in 1 .. Len(opts) :
            opts[i].field =
              FieldOf(useOptions[LastUseOption(mustLoaded[i].pc.Type, Len(useOptions))].add)

\* State was registered again, with another add function, and a State
\* descriptor was resolved after that
C18_Witness ==
    /\ Loaded
    /\ \E n \in Len(InitUseOptions) + 1 .. Len(useOptions) :
         /\ useOptions[n].type = State
         /\ useOptions[n].add = "WithPubSubs"
    /\ \E i \in 1 .. Len(mustLoaded) :
         /\ mustLoaded[i].pc.Type = State
         /\ mustLoaded[i].by.ord > Len(InitUseOptions)

\* the capabilities the descriptors of ps add to the list named field
RECURSIVE AddedTo(_, _)
AddedTo(field, ps) ==
    IF ps = <<>> THEN <<>>
    ELSE LET l == LoaderFor(pluggableOptions, Head(ps))
         IN (IF l # NoLoader /\ FieldOf(l.add) = field
             THEN <<[pc |-> Head(ps)]>> ELSE <<>>) \o AddedTo(field, Tail(ps))

ExampleList ==
    <<Descriptor(State, <<"a">>, <<"v", "1">>), Descriptor(Custom, <<"b">>, <<"v", "1">>),
      Descriptor(State, <<"c">>, <<"v", "1">>)>>

\* C19: the loader adds exactly one capability to the list of its kind for
\* each descriptor of a known type and nothing for one of an unknown type,
\* which never makes it fail: each list becomes what it was followed by the
\* capabilities of its kind, in order, so nothing is replaced and the other
\* lists stay as they were; for [{state,a,v1},{unknown,b,v1},{state,c,v1}]
\* the state list gains exactly a and c.
C19_LoaderAppendsKnownSkipsUnknown ==
    [][/\ lpc = "idle" /\ lpc' # "idle" =>
            /\ failedAt' > 0 => LoaderFor(pluggableOptions, pluggables'[failedAt']) # NoLoader
            /\ (\A i \in 1 .. Len(pluggables') :
                   LoaderFor(pluggableOptions, pluggables'[i]) = NoLoader) => lpc' = "built"
       /\ lpc = "built" /\ lpc' = "applied" =>
            /\ \A field \in DOMAIN runtimeOpts :
                 runtimeOpts'[field] = runtimeOpts[field] \o AddedTo(field, pluggables)
            /\ (/\ pluggables = ExampleList
                /\ pluggableOptions[State].add = "WithStates"
                /\ pluggableOptions[Custom] = NoLoader) =>
                 /\ runtimeOpts'.states = runtimeOpts.states \o
                       <<[pc |-> ExampleList[1]], [pc |-> ExampleList[3]]>>
                 /\ runtimeOpts'.pubsubs = runtimeOpts.pubsubs]_vars

\* the example list was loaded into a configuration that had a state store
C19_Witness ==
    /\ lpc = "applied"
    /\ pluggables = ExampleList
    /\ runtimeOpts.states = <<BuiltIn, [pc |-> ExampleList[1]], [pc |-> ExampleList[3]]>>
    /\ runtimeOpts.pubsubs = <<>>

Handled(s) == pc[s] # "idle"

\* C21: constructing the middleware performs Dial (with its Ping) and then
\* Init, in that order, before any request is handled: Init is called only
\* after Dial returned success; if Dial or Init fails the factory returns that
\* error and no middleware, and nothing else of the host is touched; requests
\* are handled only by a middleware returned after both succeeded.
C21_DialThenInitThenMiddleware ==
    /\ [](/\ inits <= 1
          /\ inits = 1 <=> initRes # "none"
          /\ inits = 1 => DialSucceeded /\ pings = 1 /\ pingRes = "ok"
          /\ (dialRet.returned /\ dialRet.err # <<>>) =>
                /\ inits = 0
                /\ factoryRet = [returned |-> TRUE, err |-> dialRet.err, middleware |-> FALSE]
          /\ initRes = "err" =>
                /\ factoryRet.returned /\ ~factoryRet.middleware
                /\ factoryRet.err \in {ErrMsg(ErrPlugin), ErrMsg(ErrCanceled)}
          /\ factoryRet.middleware <=> (DialSucceeded /\ initRes = "ok")
          /\ factoryRet.middleware => factoryRet.returned /\ factoryRet.err = <<>>
          /\ (factoryRet.returned /\ ~factoryRet.middleware) => factoryRet.err # <<>>
          /\ \A s \in Sessions : Handled(s) => factoryRet.middleware)
    /\ [][(factoryRet'.returned /\ ~factoryRet.returned /\ ~factoryRet'.middleware) =>
            /\ hostVars' = hostVars
            /\ sessVars' = sessVars]_vars

\* Dial succeeded and Init failed: the factory returned the error of Init
C21_Witness ==
    /\ DialSucceeded
    /\ initRes = "err"
    /\ factoryRet.returned
    /\ ~factoryRet.middleware

\* C22: every request handled by the middleware opens its own new stream: a
\* handler holds the stream its own Handle call opened, for its whole life,
\* no two requests ever hold the same stream, also when they are in flight
\* together, and commands are received and answered only by a handler that
\* holds its own stream.
C22_OneStreamPerRequest ==
    /\ [](/\ \A s \in Sessions : (stream[s] # "none") <=> (streamOf[s] = s)
          /\ \A s \in Sessions : streamOf[s] \in {0, s}
          /\ \A s, t \in Sessions :
                (s # t /\ streamOf[s] # 0) => streamOf[s] # streamOf[t]
          /\ streams = Cardinality({s \in Sessions : streamOf[s] # 0})
          /\ \A s \in Sessions :
                (inbox[s] # <<>> \/ dispatched[s] # <<>> \/ out[s] # <<>>) => streamOf[s] = s)
    /\ [][\A s \in Sessions :
            /\ streamOf[s] # 0 => streamOf'[s] = streamOf[s]
            /\ (streamOf[s] = 0 /\ streamOf'[s] # 0) => streams' = streams + 1]_vars

\* two requests in flight together, each on its stream, one of them with a
\* command dispatched
C22_Witness ==
    \E s, t \in Sessions :
        /\ s # t
        /\ InFlight(s) /\ stream[s] = "open" /\ dispatched[s] # <<>>
        /\ InFlight(t) /\ stream[t] = "open"
        /\ streamOf[s] # streamOf[t]

\* the handler has just sent a CommandResponse of the variant op in session s
Answers(s, op) ==
    /\ Len(out'[s]) = Len(out[s]) + 1
    /\ out'[s][Len(out'[s])].op = op

\* C23: the response to GetRequestHeaders carries the request's method, its
\* URI and every header line of the request as it was received: each
\* received entry is in the response with its value.
C23_GetRequestHeadersKeepsAll ==
    [][\A s \in Sessions :
          Answers(s, "GetReqHeaders") =>
             LET a == out'[s][Len(out'[s])]
                 r == req[s].received
             IN /\ a.method = req[s].method
                /\ Contains(a.uri, req[s].requestURI)
                /\ \A i \in 1 .. Len(r) : a.headers[r[i][1]] = r[i][2]]_vars

\* the handler has just dispatched a command of the kind op in session s
Dispatches(s, op) ==
    /\ Len(dispatched'[s]) = Len(dispatched[s]) + 1
    /\ dispatched'[s][Len(dispatched'[s])].cmd.op = op

\* C24: SetRequestHeaders{headers, method, uri} merges: each header named in
\* the command takes the given value, every other request header keeps its
\* value, the method is changed only if the supplied method is non-empty
\* (and then to it) and the URI only if the supplied URI is non-empty; the
\* request body and the whole response are left as they were.
C24_SetRequestHeadersMerges ==
    [][\A s \in Sessions :
          Dispatches(s, "SetReqHeaders") =>
             LET cmd == dispatched'[s][Len(dispatched'[s])].cmd
             IN /\ \A k \in HeaderKeys :
                      req'[s].hdr[k] =
                         IF cmd.headers[k] # None THEN cmd.headers[k] ELSE req[s].hdr[k]
                /\ req'[s].method = IF cmd.method # "" THEN cmd.method ELSE req[s].method
                /\ req'[s].requestURI =
                      IF cmd.uri # "" THEN <<cmd.uri>> ELSE req[s].requestURI
                /\ req'[s].uri # req[s].uri => cmd.uri # ""
                /\ req'[s].body = req[s].body
                /\ resp'[s] = resp[s]
                /\ out'[s] = out[s]]_vars

\* a SetRequestHeaders with a method and no URI was dispatched: X overwritten,
\* Z added, Y kept, the method changed, the URI kept
C24_Witness ==
    \E s \in Sessions :
        /\ Len(dispatched[s]) = 1
        /\ dispatched[s][1].cmd.op = "SetReqHeaders"
        /\ dispatched[s][1].cmd.method = "POST"
        /\ dispatched[s][1].cmd.uri = ""
        /\ req[s].hdr = [k \in HeaderKeys |->
                            IF k = "X" THEN "x1" ELSE IF k = "Y" THEN "y0" ELSE "z1"]
        /\ req[s].method = "POST"
        /\ req[s].requestURI = <<"/a">>

ReadOps == {"GetReqBody", "GetRespBody", "GetRespHeaders", "GetReqHeaders"}

\* the read commands among the first n dispatched messages, in order
ReadsOf(d) == SelectSeq(d, LAMBDA m : m.cmd.op \in ReadOps)

\* what the accessors of a request answer: method, request URI, URI(), the
\* header table, the header lines as received, and the body
Content(rq) ==
    [method |-> rq.method, requestURI |-> rq.requestURI, uri |-> ParseURI(rq).uri,
     hdr |-> rq.hdr, received |-> rq.received, body |-> rq.body]

ExecNextsOf(d) == SelectSeq(d, LAMBDA m : m.cmd.op = "ExecNext")

\* C26: in every session the number of invocations of the next handler h
\* equals the number of ExecuteNext commands dispatched so far: without an
\* ExecuteNext h never runs for the request, and every further ExecuteNext
\* runs it again, none being rejected.
C26_NextRunsOncePerExecuteNext ==
    /\ [](\A s \in Sessions :
            /\ nextCount[s] = Len(ExecNextsOf(dispatched[s]))
            /\ nextRunning[s] => nextCount[s] > 0)
    /\ [][\A s \in Sessions :
            /\ Dispatches(s, "ExecNext") =>
                  /\ nextCount'[s] = nextCount[s] + 1
                  /\ nextRunning'[s]
                  /\ exit'[s] = exit[s]
                  /\ resp'[s] = resp[s]
            /\ nextCount'[s] # nextCount[s] => Dispatches(s, "ExecNext")]_vars

\* two ExecuteNext in one session: h ran twice
C26_Witness ==
    \E s \in Sessions :
        /\ Len(ExecNextsOf(dispatched[s])) = 2
        /\ nextCount[s] = 2
        /\ ~nextRunning[s]

\* C27: if opening the per-request stream fails, the request is answered
\* with status 500 carrying the error, no command is ever received or
\* dispatched for it, nothing is sent, the next handler is never invoked and
\* there is no stream to tear down.
C27_OpenFailureAnswered500 ==
    /\ [](\A s \in Sessions :
            exit[s] = "openErr" =>
               /\ Returned(s)
               /\ resp[s].status = StatusInternalServerError
               /\ resp[s].body = ErrMsg(ErrUnavailable)
               /\ dispatched[s] = <<>>
               /\ inbox[s] = <<>> /\ sentN[s] = 0
               /\ out[s] = <<>>
               /\ nextCount[s] = 0 /\ ~nextRunning[s]
               /\ stream[s] = "none" /\ streamOf[s] = 0
               /\ ~sendClosed[s])
    /\ [][\A s \in Sessions :
            (pc[s] = "idle" /\ pc'[s] # "idle" /\ stream'[s] = "none") =>
               exit'[s] = "openErr" /\ pc'[s] = "returned"]_vars

\* the Connector was closed before the request came: Handle failed
C27_Witness ==
    \E s \in Sessions :
        /\ exit[s] = "openErr"
        /\ conn = "closed"
        /\ resp[s].status = StatusInternalServerError

\* the exits that answer the request with a synthesized error
SynthesizedExits == {"timeout", "recvErr", "dispatchErr"}

\* C28: when a session ends through the deadline branch or through a
\* receive or dispatch error, the synthesized error response replaces the
\* whole response built so far: the final status is 500, the final body is
\* the error message and no header set earlier is left, whatever
\* SetResponseStatus, SetResponseHeaders, SetResponseBody or ExecuteNext did
\* earlier in the session.
C28_ErrorReplacesResponse ==
    \A s \in Sessions :
        (Returned(s) /\ exit[s] \in SynthesizedExits) =>
            /\ resp[s].status = StatusInternalServerError
            /\ resp[s].body \in
                  IF exit[s] = "timeout" THEN {TimeoutMsg} ELSE ErrorTexts
            /\ resp[s].hdr = NoHeaders

\* the deadline branch was taken after the next handler ran and response
\* headers were set
C28_Witness ==
    \E s \in Sessions :
        /\ Returned(s)
        /\ exit[s] = "timeout"
        /\ Len(dispatched[s]) = 2
        /\ dispatched[s][1].cmd.op = "ExecNext"
        /\ dispatched[s][2].cmd.op = "SetRespHeaders"
        /\ resp[s].body = TimeoutMsg

\* C29: a session returns silently, through the stream-done branch or the
\* clean end of the stream, only if the plugin ended the stream: when the
\* request's deadline fires before the plugin has ended the stream, the
\* session does not leave through one of these two paths (the Connector
\* staying open).
C29_SilentOnlyIfPluginEnded ==
    \A s \in Sessions :
        (Returned(s) /\ exit[s] \in CleanExits /\ conn = "open") => plugEnd[s] # "no"

\* the factory has returned an error
FactoryFailed == factoryRet.returned /\ ~factoryRet.middleware

\* C30: no channel stays open for a capability whose construction failed:
\* when the factory has returned an error after the channel was opened (the
\* Ping inside Dial failed, or Init failed), the Connector's channel is
\* closed and its context cancelled.
C30_FailedConstructionClosesChannel ==
    (FactoryFailed /\ conn # "nil") => (conn = "closed" /\ ctxCancelled)

====
